---- MODULE Spec2Model ----
(***************************************************************************)
(* Model of the indexing pipeline of obsidian_vector_search:               *)
(*   indexer.py   ObsidianIndexer (_read_markdown_file, _chunk_text,       *)
(*                _process_file, index_vault)                              *)
(*   vector_db.py VectorDatabase (ids, upsert, point lookup, delete,       *)
(*                search)                                                  *)
(*   ollama_client.py OllamaEmbeddingClient (health, model list, embed)    *)
(*   main.py      POST /search, POST /reindex, DELETE /documents/{path}    *)
(*   mcp_server.py search_obsidian tool                                    *)
(* Text is a sequence of one-character strings; Python indices are 0-based *)
(* and are kept 0-based here (character i of text is text[i + 1]).         *)
(***************************************************************************)
EXTENDS Integers, Sequences, FiniteSets, TLC

VARIABLES
    \* ---- chunker run (one call of _chunk_text, one loop iteration per step)
    c_text,          \* argument text
    c_max,           \* argument max_chunk_size
    c_overlap,       \* argument overlap
    c_start,         \* local start
    c_chunks,        \* local chunks
    c_spans,         \* the [start, end) pairs cut so far (ghost: text[start:end])
    c_pc,            \* "loop" while in the while loop, "done" once returned
    \* ---- the vault (filesystem) and the vector store (Chroma collection)
    vault,           \* path -> the file's content (a text id), Undecodable or NoFile
    mtime,           \* path -> the file's modification time
    unencodable,     \* the paths whose file name is not valid UTF-8
    store,           \* document id -> stored record (partial function)
    \* ---- one index_vault call
    pc,              \* "idle", "files" (in the batch loops), "returned", "raised"
    batch_size,      \* argument batch_size
    markdown_files,  \* local markdown_files (empty before discovery)
    batch_i,         \* local i: 0-based start of the current batch
    file_k,          \* 0-based position in markdown_files of the next file
    batch_documents, \* local batch_documents
    processed,       \* local processed
    errors,          \* local errors
    skipped,         \* local skipped
    result,          \* what the call returned (None while running)
    \* ---- observation of the run (ghost)
    health_in,       \* outcome of health_check in this run
    model_in,        \* outcome of check_model_exists in this run
    io,              \* file reads, embedding requests, store reads and writes so far
    outcome,         \* path -> how this run counted the file
    last,            \* path -> how the run before this one counted the file
    clean,           \* no embedding or store write has failed in this run
    edits,           \* number of file edits so far
    faults,          \* number of injected embedding / write failures so far
    \* ---- between index runs: delete requests and touched files
    deleted,         \* the last delete request: its path and what it returned
    ops,             \* number of delete requests and touches so far
    \* ---- one search request (POST /search or the search_obsidian tool)
    s_pc,            \* "idle", "embedding", "searching", "done", "got"
    s_entry,         \* "http" or "mcp"
    s_query,         \* the query text
    s_embedding,     \* what generate_embedding returned for the query
    s_calls,         \* calls made for this request: embedding provider, vector store
    s_response,      \* the response of the request
    s_doc,           \* the last response of the get_document_content tool
    s_search,        \* the last call of VectorDatabase.search and what it returned
    runs             \* the index runs that are followed await by await

chunkVars == <<c_text, c_max, c_overlap, c_start, c_chunks, c_spans, c_pc>>

runVars == <<pc, batch_size, markdown_files, batch_i, file_k, batch_documents,
             processed, errors, skipped, result>>

ghostVars == <<health_in, model_in, io, outcome, last, clean, edits, faults>>

envVars == <<deleted, ops, runs>>

pipeVars == <<vault, mtime, unencodable, store, runVars, ghostVars, envVars>>

searchVars == <<s_pc, s_entry, s_query, s_embedding, s_calls, s_response, s_doc, s_search>>

vars == <<chunkVars, pipeVars, searchVars>>

(***************************************************************************)
(* Bounds of the chunker exploration.                                      *)
(***************************************************************************)
MaxLen == 5            \* longest text drawn
MaxChunk == 4          \* largest max_chunk_size drawn (smallest is 1)
MaxOverlap == 3        \* largest overlap drawn
MaxNegOverlap == 1     \* overlaps down to -MaxNegOverlap are drawn
LiveMaxLen == 3        \* longest text drawn where termination is checked

(***************************************************************************)
(* Bounds of the pipeline exploration.                                     *)
(***************************************************************************)
MaxEdits == 1          \* file edits in one behaviour
MaxFaults == 1         \* injected embedding / store write failures in one behaviour
MaxBatchSize == 2      \* largest batch_size drawn (smallest is 1)
MaxOps == 1            \* delete requests and touches in one behaviour
MaxQueryLen == 2       \* longest search query drawn

Chars == {"a", " ", ".", "\n"}
Whitespace == {" ", "\n"}

RECURSIVE TextsUpTo(_)
TextsUpTo(n) ==
    IF n = 0 THEN {<<>>}
    ELSE LET shorter == TextsUpTo(n - 1)
         IN shorter \cup {Append(t, ch) : t \in {s \in shorter : Len(s) = n - 1}, ch \in Chars}

Min(a, b) == IF a < b THEN a ELSE b

(***************************************************************************)
(* Python string primitives used by _chunk_text.                           *)
(***************************************************************************)
\* text[start:end] for 0 <= start
Slice(text, start, end) ==
    SubSeq(text, start + 1, Min(end, Len(text)))

\* text.rfind(sub, start, end): the highest index i with
\* start <= i and i + len(sub) <= min(end, len(text)) and text[i:i+len(sub)] = sub;
\* -1 when there is none.
rfind(text, sub, start, end) ==
    LET lim == Min(end, Len(text))
        hits == {i \in start..(lim - Len(sub)) :
                    \A k \in 1..Len(sub) : text[i + k] = sub[k]}
    IN IF hits = {} THEN -1 ELSE CHOOSE i \in hits : \A j \in hits : j <= i

\* s.strip(): s without its leading and trailing whitespace
strip(s) ==
    LET keep == {i \in 1..Len(s) : s[i] \notin Whitespace}
    IN IF keep = {} THEN <<>>
       ELSE SubSeq(s, CHOOSE i \in keep : \A j \in keep : i <= j,
                      CHOOSE i \in keep : \A j \in keep : j <= i)

(***************************************************************************)
(* _chunk_text, indexer.py 72-99.                                          *)
(***************************************************************************)
ChunkEnd_PeriodFirst(text, start, max_chunk_size) ==
    LET end == start + max_chunk_size
    IN IF end < Len(text)
       THEN LET last_period == rfind(text, <<".">>, start, end)
                last_newline == rfind(text, <<"\n", "\n">>, start, end)
            IN IF last_period > start THEN last_period + 1
               ELSE IF last_newline > start THEN last_newline
               ELSE end
       ELSE end

\* lines 81-91: the end of the chunk that starts at start
ChunkEnd(text, start, max_chunk_size) ==
    LET end == start + max_chunk_size
    IN IF end < Len(text)
       THEN LET last_period == rfind(text, <<".">>, start, end)
                last_newline == rfind(text, <<"\n", "\n">>, start, end)
            IN IF last_newline > start THEN last_newline
               ELSE IF last_period > start THEN last_period + 1
               ELSE end
       ELSE end

AddChunk_Inclusive(chunks, text, start, end) ==
    LET chunk == strip(Slice(text, start, end + 1))
    IN IF chunk # <<>> THEN Append(chunks, chunk) ELSE chunks

\* lines 93-95: chunks after the chunk text[start:end] has been considered
AddChunk(chunks, text, start, end) ==
    LET chunk == strip(Slice(text, start, end))
    IN IF chunk # <<>> THEN Append(chunks, chunk) ELSE chunks

NextStart_SignError(start, end, overlap) ==
    IF end + overlap > start THEN end + overlap ELSE end

NextStart_NoProgress(start, end, overlap) ==
    IF end - overlap >= start THEN end - overlap ELSE end

\* line 97: the start of the next chunk
NextStart(start, end, overlap) ==
    IF end - overlap > start THEN end - overlap ELSE end

\* lines 80-97: the while loop, from the loop state (start, chunks)
RECURSIVE ChunkLoop(_, _, _, _, _)
ChunkLoop(text, max_chunk_size, overlap, start, chunks) ==
    IF start < Len(text)
    THEN LET end == ChunkEnd(text, start, max_chunk_size)
         IN ChunkLoop(text, max_chunk_size, overlap,
                      NextStart(start, end, overlap),
                      AddChunk(chunks, text, start, end))
    ELSE chunks

\* lines 74-75: the short-text return
ShortText(text, max_chunk_size) == Len(text) <= max_chunk_size

ShortResult_Stripped(text) == <<strip(text)>>

\* line 75: what the short-text return returns
ShortResult(text) == <<text>>

\* the whole function
chunk_text(text, max_chunk_size, overlap) ==
    IF ShortText(text, max_chunk_size) THEN ShortResult(text)
    ELSE ChunkLoop(text, max_chunk_size, overlap, 0, <<>>)

(***************************************************************************)
(* One call of _chunk_text, stepped one loop iteration at a time.          *)
(***************************************************************************)
ChunkStart(maxlen) ==
    /\ c_text \in TextsUpTo(maxlen)
    /\ c_max \in 1..MaxChunk
    /\ c_overlap \in (0 - MaxNegOverlap)..MaxOverlap
    /\ c_start = 0
    /\ c_spans = <<>>
    /\ IF ShortText(c_text, c_max)
       THEN c_chunks = ShortResult(c_text) /\ c_pc = "done"
       ELSE c_chunks = <<>> /\ c_pc = "loop"

\* no _chunk_text call is being stepped
ChunkIdle ==
    /\ c_text = <<>> /\ c_max = 1 /\ c_overlap = 0 /\ c_start = 0
    /\ c_chunks = <<>> /\ c_spans = <<>> /\ c_pc = "idle"

\* one iteration of the while loop (lines 80-97)
ChunkIterate ==
    /\ c_pc = "loop"
    /\ c_start < Len(c_text)
    /\ LET end == ChunkEnd(c_text, c_start, c_max)
       IN /\ c_chunks' = AddChunk(c_chunks, c_text, c_start, end)
          /\ c_spans' = Append(c_spans, <<c_start, end>>)
          /\ c_start' = NextStart(c_start, end, c_overlap)
    /\ UNCHANGED <<c_text, c_max, c_overlap, c_pc>>
    /\ UNCHANGED <<pipeVars, searchVars>>

\* the loop condition fails: return chunks (line 99)
ChunkReturn ==
    /\ c_pc = "loop"
    /\ ~(c_start < Len(c_text))
    /\ c_pc' = "done"
    /\ UNCHANGED <<c_text, c_max, c_overlap, c_start, c_chunks, c_spans>>
    /\ UNCHANGED <<pipeVars, searchVars>>


(***************************************************************************)
(* The vault: files and their contents.                                    *)
(***************************************************************************)
None == [none |-> TRUE]       \* Python None, where a dict is expected
NoFile == "NoFile"             \* no such file in the vault
Undecodable == "Undecodable"   \* a .md file whose bytes are not valid UTF-8

Paths == {"a.md", "b.md"}
WalkOrder == <<"a.md", "b.md">>   \* the order os.walk yields them in

TextIds == {"small", "large", "blank", "empty"}

\* the contents files take: 50 characters; 2500 characters without a
\* break; 1001 spaces; nothing
TextOf(t) ==
    CASE t = "small" -> [i \in 1..50 |-> "a"]
      [] t = "large" -> [i \in 1..2500 |-> "a"]
      [] t = "blank" -> [i \in 1..1001 |-> " "]
      [] t = "empty" -> <<>>

FileStates == TextIds \cup {Undecodable, NoFile}
InitFileStates == {"small", "large", Undecodable, NoFile}

DefaultMaxChunkSize == 1000
DefaultOverlap == 200
DefaultBatchSize == 10

\* _chunk_text(content) as _process_file calls it (line 120), per content
ChunksOf == [t \in TextIds |-> chunk_text(TextOf(t), DefaultMaxChunkSize, DefaultOverlap)]

\* _get_file_hash: MD5 of the file's bytes; equal exactly for equal contents
get_file_hash(t) == [md5 |-> t]

\* _read_markdown_file (lines 34-57): None when the file cannot be read
read_markdown_file(vlt, path) ==
    IF vlt[path] \in TextIds
    THEN [file_path |-> path, content |-> vlt[path],
          metadata |-> [modified_at |-> mtime[path],
                        content_hash |-> get_file_hash(vlt[path])]]
    ELSE None

\* _get_all_markdown_files (lines 59-70)
get_all_markdown_files(vlt) ==
    SelectSeq(WalkOrder, LAMBDA path : vlt[path] # NoFile)

(***************************************************************************)
(* VectorDatabase.                                                         *)
(***************************************************************************)
\* the logical path of chunk i of n of a file (line 137):
\* "path#i" when the file has more than one chunk, "path" otherwise
LogicalPath(path, i, n) == IF n > 1 THEN <<path, i>> ELSE <<path>>

\* _generate_document_id (lines 36-38): MD5 of the logical path
generate_document_id(file_path) == [md5 |-> file_path]

\* get_document_by_path (lines 115-133)
get_document_by_path(st, file_path) ==
    LET doc_id == generate_document_id(file_path)
    IN IF doc_id \in DOMAIN st THEN st[doc_id] ELSE None

\* add_documents (lines 40-77) when collection.upsert succeeds
add_documents(st, documents) ==
    LET ids == {generate_document_id(documents[n].file_path) : n \in 1..Len(documents)}
        docOf(id) == CHOOSE n \in 1..Len(documents) :
            /\ generate_document_id(documents[n].file_path) = id
            /\ \A m \in 1..Len(documents) :
                 generate_document_id(documents[m].file_path) = id => m <= n
    IN [id \in (DOMAIN st) \cup ids |->
            IF id \in ids THEN documents[docOf(id)] ELSE st[id]]

\* collection.delete(ids=...): the records with these ids are removed; an id
\* the collection does not hold is passed over without an error
collection_delete(st, ids) == [id \in (DOMAIN st) \ ids |-> st[id]]

\* delete_document (lines 135-144): the value returned, given whether
\* collection.delete raised
delete_document_returns(st, file_path, raises) == ~raises

(***************************************************************************)
(* ObsidianIndexer._process_file (lines 101-146).                          *)
(***************************************************************************)
\* lines 109-115: the file is unchanged
Unchanged(existing_doc, file_data) ==
    /\ existing_doc # None
    /\ existing_doc.metadata.content_hash = file_data.metadata.content_hash

\* does _process_file get as far as chunking and embedding (line 117)?
NeedsProcessing(st, vlt, path) ==
    LET file_data == read_markdown_file(vlt, path)
    IN /\ file_data # None
       /\ ~Unchanged(get_document_by_path(st, <<path>>), file_data)

\* lines 129-141: the document built for chunk i (0-based) of the file.
\* content names the chunk: chunk i of _chunk_text of the text.
Document(file_data, i, n) ==
    [file_path |-> LogicalPath(file_data.file_path, i, n),
     content   |-> <<file_data.content, i>>,
     metadata  |-> [modified_at  |-> file_data.metadata.modified_at,
                    content_hash |-> file_data.metadata.content_hash,
                    chunk_index  |-> i,
                    total_chunks |-> n,
                    chunk_size   |-> Len(ChunksOf[file_data.content][i + 1])],
     embedding |-> <<file_data.content, i>>]

\* generate_embedding for chunk i of the file (ollama_client.py lines
\* 20-51): the empty list when the request of a chunk in bad fails or its
\* answer has no embedding, else the vector of the chunk
Embedding(file_data, i, bad) ==
    IF i \in bad THEN <<>> ELSE <<file_data.content, i>>

EmbeddingKept_Always(embedding) == TRUE

\* "if embedding:" (line 128)
EmbeddingKept(embedding) == embedding # <<>>

\* the chunk a stored content stands for
ContentText(content) == ChunksOf[content[1]][content[2] + 1]

\* lines 119-146: the documents of a file that is processed, when the
\* embedding calls of the chunks in bad return an empty vector
Documents(file_data, bad) ==
    LET n == Len(ChunksOf[file_data.content])
        good == SelectSeq([j \in 1..n |-> j - 1],
                          LAMBDA i : EmbeddingKept(Embedding(file_data, i, bad)))
    IN [j \in 1..Len(good) |->
          [Document(file_data, good[j], n) EXCEPT
              !.embedding = Embedding(file_data, good[j], bad)]]

\* the whole of _process_file
process_file(st, vlt, path, bad) ==
    IF NeedsProcessing(st, vlt, path)
    THEN Documents(read_markdown_file(vlt, path), bad)
    ELSE <<>>

\* number of embedding requests _process_file makes for the file
EmbedCalls(st, vlt, path) ==
    IF NeedsProcessing(st, vlt, path) THEN Len(ChunksOf[vlt[path]]) ELSE 0

\* the chunk indexes any file has
ChunkIndexes == UNION {0..(Len(ChunksOf[t]) - 1) : t \in TextIds}

\* the failure patterns of n embedding calls that are explored: none fails,
\* the first fails, the last fails, all fail
FailPatterns(n) ==
    {{}} \cup (IF n > 0 THEN {{0}, {n - 1}, 0..(n - 1)} ELSE {})

(***************************************************************************)
(* ObsidianIndexer.index_vault (lines 148-203).                            *)
(***************************************************************************)
NoIO == [reads |-> 0, embeds |-> 0, store_reads |-> 0, store_writes |-> 0,
         failed_chunks |-> 0]

NoOutcome ==
    [path \in Paths |-> [kind |-> "none", text |-> NoFile, stored |-> FALSE, failed |-> {}]]

PreflightAborts_ModelRequired(health, model) == ~health \/ ~model

\* lines 153-154: the preflight aborts the run
PreflightAborts(health, model) == ~health

Callable == pc \in {"idle", "returned", "raised"}

\* the call up to the file loop: preflight, discovery, the empty-vault return
\* (lines 148-167)
IndexVault(health, model, size) ==
    /\ Callable
    /\ batch_size' = size
    /\ health_in' = health
    /\ model_in' = model
    /\ io' = NoIO
    /\ last' = outcome
    /\ outcome' = NoOutcome
    /\ clean' = TRUE
    /\ batch_i' = 0 /\ file_k' = 0 /\ batch_documents' = <<>>
    /\ processed' = 0 /\ errors' = 0 /\ skipped' = 0
    /\ IF PreflightAborts(health, model)
       THEN /\ pc' = "raised"
            /\ result' = [raised |-> "ConnectionError"]
            /\ markdown_files' = <<>>
       ELSE LET found == get_all_markdown_files(vault)
            IN /\ markdown_files' = found
               /\ IF found = <<>>
                  THEN /\ pc' = "returned"
                       /\ result' = [processed |-> 0, errors |-> 0, skipped |-> 0]
                  ELSE /\ pc' = "files"
                       /\ result' = None
    /\ UNCHANGED <<vault, mtime, unencodable, store, edits, faults>>
    /\ UNCHANGED <<chunkVars, envVars, searchVars>>

\* index_vault() as update_index (line 207), POST /reindex (main.py line 159)
\* and the reindex_vault tool (mcp_server.py line 312) call it: batch_size
\* is the default
StartRun(health, model) == IndexVault(health, model, DefaultBatchSize)

BatchEnd_OneFile == Min(batch_i + 1, Len(markdown_files))

\* the index after the last file of markdown_files[i:i + batch_size]
\* (line 171)
BatchEnd == Min(batch_i + batch_size, Len(markdown_files))

\* _process_file raises: the file is read, then get_document_by_path
\* computes the id from file_path.encode() before its try (vector_db.py
\* lines 117-118), which raises UnicodeEncodeError for a file name that is
\* not valid UTF-8
ProcessRaises(vlt, badnames, path) ==
    /\ read_markdown_file(vlt, path) # None
    /\ path \in badnames

\* one iteration of the inner loop (lines 174-185): one file of the batch
ProcessFile(bad) ==
    /\ pc = "files"
    /\ batch_i < Len(markdown_files)
    /\ file_k < BatchEnd
    /\ ~ProcessRaises(vault, unencodable, markdown_files[file_k + 1])
    /\ LET file_path == markdown_files[file_k + 1]
           calls == EmbedCalls(store, vault, file_path)
           file_documents == process_file(store, vault, file_path, bad)
           readable == read_markdown_file(vault, file_path) # None
       IN /\ bad \in FailPatterns(calls)
          /\ bad # {} => faults < MaxFaults
          /\ faults' = IF bad # {} THEN faults + 1 ELSE faults
          /\ clean' = (clean /\ bad = {})
          /\ io' = [io EXCEPT !.reads = @ + 1,
                              !.store_reads = @ + (IF readable THEN 1 ELSE 0),
                              !.embeds = @ + calls]
          /\ IF file_documents # <<>>
             THEN /\ batch_documents' = batch_documents \o file_documents
                  /\ processed' = processed + 1
                  /\ skipped' = skipped
                  /\ outcome' = [outcome EXCEPT ![file_path] =
                        [kind |-> "processed", text |-> vault[file_path], stored |-> FALSE,
                         failed |-> bad]]
             ELSE /\ batch_documents' = batch_documents
                  /\ processed' = processed
                  /\ skipped' = skipped + 1
                  /\ outcome' = [outcome EXCEPT ![file_path] =
                        [kind |-> "skipped", text |-> vault[file_path], stored |-> FALSE,
                         failed |-> bad]]
    /\ file_k' = file_k + 1
    /\ UNCHANGED <<vault, mtime, unencodable, store, pc, batch_size, markdown_files,
                   batch_i, errors, result, health_in, model_in, last, edits>>
    /\ UNCHANGED <<chunkVars, envVars, searchVars>>

ProcessFileRaises_Uncounted ==
    /\ pc = "files"
    /\ batch_i < Len(markdown_files)
    /\ file_k < BatchEnd
    /\ ProcessRaises(vault, unencodable, markdown_files[file_k + 1])
    /\ io' = [io EXCEPT !.reads = @ + 1]
    /\ outcome' = [outcome EXCEPT ![markdown_files[file_k + 1]] =
          [kind |-> "error", text |-> vault[markdown_files[file_k + 1]], stored |-> FALSE,
           failed |-> {}]]
    /\ file_k' = file_k + 1
    /\ UNCHANGED <<vault, mtime, unencodable, store, pc, batch_size, markdown_files, batch_i,
                   batch_documents, processed, errors, skipped, result,
                   health_in, model_in, last, clean, edits, faults>>
    /\ UNCHANGED <<chunkVars, envVars, searchVars>>

ProcessFileRaises_Aborts ==
    /\ pc = "files"
    /\ batch_i < Len(markdown_files)
    /\ file_k < BatchEnd
    /\ ProcessRaises(vault, unencodable, markdown_files[file_k + 1])
    /\ io' = [io EXCEPT !.reads = @ + 1]
    /\ outcome' = [outcome EXCEPT ![markdown_files[file_k + 1]] =
          [kind |-> "error", text |-> vault[markdown_files[file_k + 1]], stored |-> FALSE,
           failed |-> {}]]
    /\ pc' = "raised"
    /\ result' = [raised |-> "UnicodeEncodeError"]
    /\ UNCHANGED <<vault, mtime, unencodable, store, batch_size, markdown_files, batch_i,
                   file_k, batch_documents, processed, errors, skipped,
                   health_in, model_in, last, clean, edits, faults>>
    /\ UNCHANGED <<chunkVars, envVars, searchVars>>

\* one iteration of the inner loop in which _process_file raises
\* (lines 175-176, 183-185)
ProcessFileRaises ==
    /\ pc = "files"
    /\ batch_i < Len(markdown_files)
    /\ file_k < BatchEnd
    /\ ProcessRaises(vault, unencodable, markdown_files[file_k + 1])
    /\ io' = [io EXCEPT !.reads = @ + 1]
    /\ outcome' = [outcome EXCEPT ![markdown_files[file_k + 1]] =
          [kind |-> "error", text |-> vault[markdown_files[file_k + 1]], stored |-> FALSE,
           failed |-> {}]]
    /\ errors' = errors + 1
    /\ file_k' = file_k + 1
    /\ UNCHANGED <<vault, mtime, unencodable, store, pc, batch_size, markdown_files, batch_i,
                   batch_documents, processed, skipped, result,
                   health_in, model_in, last, clean, edits, faults>>
    /\ UNCHANGED <<chunkVars, envVars, searchVars>>

\* the files whose documents are in batch_documents
BatchPaths == {batch_documents[n].file_path[1] : n \in 1..Len(batch_documents)}

\* the end of a batch (lines 187-193) whose write succeeds
WriteBatch ==
    /\ pc = "files"
    /\ batch_i < Len(markdown_files)
    /\ file_k = BatchEnd
    /\ batch_documents # <<>>
    /\ store' = add_documents(store, batch_documents)
    /\ io' = [io EXCEPT !.store_writes = @ + 1]
    /\ outcome' = [path \in Paths |->
          IF path \in BatchPaths
          THEN [outcome[path] EXCEPT !.failed = {}, !.stored =
                  \A i \in 0..(Len(ChunksOf[outcome[path].text]) - 1) :
                     \E n \in 1..Len(batch_documents) :
                        /\ batch_documents[n].file_path[1] = path
                        /\ batch_documents[n].metadata.chunk_index = i]
          ELSE outcome[path]]
    /\ batch_i' = batch_i + batch_size
    /\ batch_documents' = <<>>
    /\ UNCHANGED <<vault, mtime, unencodable, pc, batch_size, markdown_files, file_k,
                   processed, errors, skipped,
                   result, health_in, model_in, last, clean, edits, faults>>
    /\ UNCHANGED <<chunkVars, envVars, searchVars>>

FailedWriteErrors_OnePerBatch(documents) == 1

\* line 193: what a failed write adds to errors
FailedWriteErrors(documents) == Len(documents)

WriteBatchFails_Stores ==
    /\ pc = "files"
    /\ batch_i < Len(markdown_files)
    /\ file_k = BatchEnd
    /\ batch_documents # <<>>
    /\ faults < MaxFaults
    /\ faults' = faults + 1
    /\ clean' = FALSE
    /\ errors' = errors + FailedWriteErrors(batch_documents)
    /\ store' = add_documents(store, batch_documents)
    /\ io' = [io EXCEPT !.store_writes = @ + 1,
                        !.failed_chunks = @ + Len(batch_documents)]
    /\ outcome' = [path \in Paths |->
          IF path \in BatchPaths THEN [outcome[path] EXCEPT !.failed = {}]
          ELSE outcome[path]]
    /\ batch_i' = batch_i + batch_size
    /\ batch_documents' = <<>>
    /\ UNCHANGED <<vault, mtime, unencodable, pc, batch_size, markdown_files, file_k,
                   processed, skipped,
                   result, health_in, model_in, last, edits>>
    /\ UNCHANGED <<chunkVars, envVars, searchVars>>

\* the end of a batch whose write raises (lines 191-193)
WriteBatchFails ==
    /\ pc = "files"
    /\ batch_i < Len(markdown_files)
    /\ file_k = BatchEnd
    /\ batch_documents # <<>>
    /\ faults < MaxFaults
    /\ faults' = faults + 1
    /\ clean' = FALSE
    /\ errors' = errors + FailedWriteErrors(batch_documents)
    /\ io' = [io EXCEPT !.store_writes = @ + 1,
                        !.failed_chunks = @ + Len(batch_documents)]
    /\ outcome' = [path \in Paths |->
          IF path \in BatchPaths THEN [outcome[path] EXCEPT !.failed = {}]
          ELSE outcome[path]]
    /\ batch_i' = batch_i + batch_size
    /\ batch_documents' = <<>>
    /\ UNCHANGED <<vault, mtime, unencodable, store, pc, batch_size, markdown_files, file_k,
                   processed, skipped,
                   result, health_in, model_in, last, edits>>
    /\ UNCHANGED <<chunkVars, envVars, searchVars>>

\* the end of a batch that produced no document (line 188)
EmptyBatch ==
    /\ pc = "files"
    /\ batch_i < Len(markdown_files)
    /\ file_k = BatchEnd
    /\ batch_documents = <<>>
    /\ batch_i' = batch_i + batch_size
    /\ UNCHANGED <<vault, mtime, unencodable, store, pc, batch_size, markdown_files, file_k,
                   batch_documents, processed, errors, skipped, result, ghostVars>>
    /\ UNCHANGED <<chunkVars, envVars, searchVars>>

\* the summary (lines 195-203)
ReturnSummary ==
    /\ pc = "files"
    /\ batch_i >= Len(markdown_files)
    /\ result' = [processed |-> processed, errors |-> errors, skipped |-> skipped,
                  total_files |-> Len(markdown_files)]
    /\ pc' = "returned"
    /\ UNCHANGED <<vault, mtime, unencodable, store, batch_size, markdown_files, batch_i,
                   file_k, batch_documents, processed, errors, skipped, ghostVars>>
    /\ UNCHANGED <<chunkVars, envVars, searchVars>>

\* between runs, the modification time of a file changes and its content
\* does not
TouchFile(path) ==
    /\ Callable
    /\ ops < MaxOps
    /\ vault[path] # NoFile
    /\ mtime' = [mtime EXCEPT ![path] = @ + 1]
    /\ ops' = ops + 1
    /\ UNCHANGED <<vault, unencodable, store, runVars, ghostVars, deleted, runs>>
    /\ UNCHANGED <<chunkVars, searchVars>>

\* the fields IndexStats requires (main.py lines 44-48)
IndexStatsFields == {"processed", "errors", "skipped", "total_files"}

\* POST /reindex (main.py lines 155-163): the status of the response built
\* from what index_vault returned or raised; IndexStats(**result) raises
\* when a required field is missing, and every exception becomes a 500
manual_reindex(res) ==
    IF IndexStatsFields \subseteq DOMAIN res THEN 200 ELSE 500

\* between runs, a file of the vault is written, replaced or removed
EditFile(path, new) ==
    /\ Callable
    /\ edits < MaxEdits
    /\ new # vault[path]
    /\ vault' = [vault EXCEPT ![path] = new]
    /\ mtime' = [mtime EXCEPT ![path] = @ + 1]
    /\ edits' = edits + 1
    /\ UNCHANGED <<unencodable, store, runVars, health_in, model_in, io, outcome,
                   last, clean, faults>>
    /\ UNCHANGED <<chunkVars, envVars, searchVars>>

\* the paths a delete request names: a file's path or the logical path of
\* one of its chunks
DeletePaths ==
    {<<path>> : path \in Paths} \cup {<<path, i>> : path \in Paths, i \in ChunkIndexes}

\* the status of the response of DELETE /documents/{file_path}
\* (main.py lines 185-196): the HTTPException(404) of line 193 is raised
\* inside the try and turned into a 500 by the except of line 194
delete_response(success) == IF success THEN 200 ELSE 500

\* DELETE /documents/{file_path} between index runs; raises says whether
\* collection.delete raised
DeleteDocument(file_path, raises) ==
    /\ Callable
    /\ ops < MaxOps
    /\ LET success == delete_document_returns(store, file_path, raises)
       IN /\ store' = IF raises THEN store
                      ELSE collection_delete(store, {generate_document_id(file_path)})
          /\ deleted' = [n |-> deleted.n + 1, file_path |-> file_path,
                         raised |-> raises, returned |-> success,
                         status |-> delete_response(success)]
    /\ ops' = ops + 1
    /\ UNCHANGED <<vault, mtime, unencodable, runVars, ghostVars, runs>>
    /\ UNCHANGED <<chunkVars, searchVars>>

\* no request on the store has been made
NoDelete == [n |-> 0, file_path |-> <<>>, raised |-> FALSE, returned |-> FALSE, status |-> 0]

(***************************************************************************)
(* Index runs on the event loop of the API process (main.py): a run gives  *)
(* up control only at its awaits, the health check and each embedding      *)
(* request; what lies between two awaits runs without interruption.        *)
(***************************************************************************)
\* the runs that are followed
Runs == {1, 2}

\* what starts a run: POST /reindex (main.py lines 155-163) or the
\* scheduler job (lines 94-101)
Origins == {"manual", "periodic"}

\* no run has been started in this place
NoRun ==
    [pc |-> "off", origin |-> "manual", overlapped |-> FALSE,
     files |-> <<>>, batch_i |-> 0, file_k |-> 0, chunk_j |-> 0, failed |-> {},
     batch_documents |-> <<>>, processed |-> 0, errors |-> 0, skipped |-> 0,
     embedded |-> {}, counted |-> {}, result |-> None]

InFlight(run) == run.pc \in {"health", "embed"}

Startable_OneAtATime(r, origin) ==
    /\ runs[r].pc = "off"
    /\ \A o \in Runs \ {r} : ~InFlight(runs[o])

\* may a run be started now? The handler of POST /reindex awaits
\* index_vault with no check at all (lines 158-160). The job is added
\* with no max_instances (lines 69-74), so the scheduler runs one instance
\* of it at a time: a trigger that fires while the job's previous instance
\* is running is skipped, whereas a manual run does not hold it back.
Startable(r, origin) ==
    /\ runs[r].pc = "off"
    /\ origin = "periodic" =>
          \A o \in Runs \ {r} : ~(InFlight(runs[o]) /\ runs[o].origin = "periodic")

\* index_vault from where the run stands to its next embedding request or
\* to its return (indexer.py lines 170-203): files that are not processed
\* are counted as skipped, and the batch is written at its end
RECURSIVE RunOn(_, _)
RunOn(run, st) ==
    IF run.batch_i >= Len(run.files)
    THEN [run |-> [run EXCEPT !.pc = "returned",
                              !.result = [processed |-> run.processed, errors |-> run.errors,
                                          skipped |-> run.skipped,
                                          total_files |-> Len(run.files)]],
          store |-> st]
    ELSE IF run.file_k < Min(run.batch_i + DefaultBatchSize, Len(run.files))
    THEN IF NeedsProcessing(st, vault, run.files[run.file_k + 1])
         THEN [run |-> [run EXCEPT !.pc = "embed", !.chunk_j = 0, !.failed = {},
                                   !.embedded = @ \cup {run.files[run.file_k + 1]}],
               store |-> st]
         ELSE RunOn([run EXCEPT !.skipped = @ + 1, !.file_k = @ + 1], st)
    ELSE RunOn([run EXCEPT !.batch_i = @ + DefaultBatchSize, !.batch_documents = <<>>],
               IF run.batch_documents # <<>>
               THEN add_documents(st, run.batch_documents)
               ELSE st)

\* a run is started and waits for the answer of the health check
\* (indexer.py line 153)
RunStarts(r, origin) ==
    /\ Startable(r, origin)
    /\ runs' = [runs EXCEPT ![r] =
          [NoRun EXCEPT !.pc = "health", !.origin = origin,
                        !.overlapped = \E o \in Runs \ {r} : runs[o].pc = "embed"]]
    /\ UNCHANGED <<vault, mtime, unencodable, store, runVars, ghostVars, deleted, ops>>
    /\ UNCHANGED <<chunkVars, searchVars>>

\* the health check answers (lines 153-157): the run raises, or discovers
\* the files (line 159) and goes on to its first embedding request
RunHealthReturns(r, health) ==
    /\ runs[r].pc = "health"
    /\ IF PreflightAborts(health, TRUE)
       THEN /\ runs' = [runs EXCEPT ![r] =
                  [@ EXCEPT !.pc = "raised", !.result = [raised |-> "ConnectionError"]]]
            /\ store' = store
       ELSE LET found == get_all_markdown_files(vault)
                next == IF found = <<>>
                        THEN [run |-> [runs[r] EXCEPT !.pc = "returned",
                                          !.result = [processed |-> 0, errors |-> 0,
                                                      skipped |-> 0]],
                              store |-> store]
                        ELSE RunOn([runs[r] EXCEPT !.files = found], store)
            IN /\ runs' = [runs EXCEPT ![r] = next.run]
               /\ store' = next.store
    /\ UNCHANGED <<vault, mtime, unencodable, runVars, ghostVars, deleted, ops>>
    /\ UNCHANGED <<chunkVars, searchVars>>

\* an embedding request of the run answers (lines 123-144); after the last
\* chunk of the file the file is counted (lines 177-181) and the run goes
\* on to its next embedding request
RunEmbeddingReturns(r, ok) ==
    /\ runs[r].pc = "embed"
    /\ ~ok => faults < MaxFaults
    /\ faults' = IF ok THEN faults ELSE faults + 1
    /\ LET run == runs[r]
           path == run.files[run.file_k + 1]
           failed == IF ok THEN run.failed ELSE run.failed \cup {run.chunk_j}
       IN IF run.chunk_j + 1 < Len(ChunksOf[vault[path]])
          THEN /\ runs' = [runs EXCEPT ![r] =
                     [run EXCEPT !.chunk_j = @ + 1, !.failed = failed]]
               /\ store' = store
          ELSE LET file_documents == Documents(read_markdown_file(vault, path), failed)
                   counted == IF file_documents # <<>>
                              THEN [run EXCEPT !.batch_documents = @ \o file_documents,
                                               !.processed = @ + 1,
                                               !.counted = @ \cup {path},
                                               !.file_k = @ + 1]
                              ELSE [run EXCEPT !.skipped = @ + 1, !.file_k = @ + 1]
                   next == RunOn(counted, store)
               IN /\ runs' = [runs EXCEPT ![r] = next.run]
                  /\ store' = next.store
    /\ UNCHANGED <<vault, mtime, unencodable, runVars, health_in, model_in, io, outcome,
                   last, clean, edits, deleted, ops>>
    /\ UNCHANGED <<chunkVars, searchVars>>

EnvInit ==
    /\ deleted = NoDelete
    /\ ops = 0
    /\ runs = [r \in Runs |-> NoRun]

\* the service has started over a vault and an empty store
PipeStart ==
    /\ vault \in [Paths -> InitFileStates]
    /\ store = <<>>
    /\ mtime = [path \in Paths |-> 0]
    /\ pc = "idle"
    /\ batch_size = DefaultBatchSize
    /\ markdown_files = <<>>
    /\ batch_i = 0 /\ file_k = 0 /\ batch_documents = <<>>
    /\ processed = 0 /\ errors = 0 /\ skipped = 0
    /\ result = None
    /\ health_in = TRUE /\ model_in = TRUE
    /\ io = NoIO
    /\ outcome = NoOutcome /\ last = NoOutcome
    /\ clean = TRUE
    /\ edits = 0 /\ faults = 0
    /\ EnvInit

\* every file name of the vault is valid UTF-8
PipeInit == PipeStart /\ unencodable = {}

\* no index run exists
RunOff ==
    /\ pc = "off"
    /\ mtime = [path \in Paths |-> 0]
    /\ batch_size = DefaultBatchSize
    /\ unencodable = {}
    /\ markdown_files = <<>>
    /\ batch_i = 0 /\ file_k = 0 /\ batch_documents = <<>>
    /\ processed = 0 /\ errors = 0 /\ skipped = 0
    /\ result = None
    /\ health_in = TRUE /\ model_in = TRUE
    /\ io = NoIO
    /\ outcome = NoOutcome /\ last = NoOutcome
    /\ clean = TRUE
    /\ edits = 0 /\ faults = 0
    /\ EnvInit

PipeIdle ==
    /\ vault = [path \in Paths |-> NoFile]
    /\ store = <<>>
    /\ RunOff

(***************************************************************************)
(* Search: POST /search (main.py lines 121-153) and the search_obsidian    *)
(* tool (mcp_server.py lines 150-215), one request at a time, stepped at   *)
(* the awaited calls.  The tool is served only after initialize_components *)
(* succeeded (mcp_server.py lines 338-340), so its components exist.       *)
(***************************************************************************)
Entries == {"http", "mcp"}
Queries == TextsUpTo(MaxQueryLen)

NoCalls == [embed |-> 0, search |-> 0]
NoResponse == [kind |-> "none", status |-> 0, detail |-> "", results |-> {}, total_results |-> 0]

\* the error response of an entry point: the {"error": ...} text of the
\* tool; HTTPException(500) of POST /search (the one of line 129 is raised
\* inside the try and raised again as a 500 by the except of line 151)
ErrorResponse(entry, detail) ==
    [kind |-> "error", status |-> IF entry = "http" THEN 500 ELSE 0,
     detail |-> detail, results |-> {}, total_results |-> 0]

\* the response that carries the results of the store
ResultResponse(entry, found) ==
    [kind |-> "ok", status |-> IF entry = "http" THEN 200 ELSE 0,
     detail |-> "", results |-> found.results, total_results |-> found.total_results]

\* the query an entry point rejects before doing anything else: the tool
\* rejects a query that is empty after strip() (mcp_server.py lines
\* 162-164); POST /search has no such check
QueryRejected(entry, query) == entry = "mcp" /\ strip(query) = <<>>

\* generate_embedding (ollama_client.py lines 20-51): the vector of the
\* text, or [] when the provider fails or answers without an embedding
generate_embedding(text, ok) == IF ok THEN <<text>> ELSE <<>>

EmbeddingRejected_Never(embedding) == FALSE

\* "if not query_embedding" (main.py line 128, mcp_server.py line 172)
EmbeddingRejected(embedding) == embedding = <<>>

\* VectorDatabase.search (vector_db.py lines 79-113) with n_results not
\* below the number of stored records: every record is a result, unless the
\* query of the collection raises
vector_db_search_Propagates(st, query_embedding, raises) ==
    [raised |-> raises, results |-> DOMAIN st, total_results |-> Cardinality(DOMAIN st)]

vector_db_search(st, query_embedding, raises) ==
    LET found == IF raises THEN {} ELSE DOMAIN st
    IN [raised |-> FALSE, results |-> found, total_results |-> Cardinality(found)]

\* VectorDatabase.search has not been called
NoSearch == [called |-> FALSE, raises |-> FALSE,
             value |-> [raised |-> FALSE, results |-> {}, total_results |-> 0]]

\* the get_document_content tool has not been called
NoDocument == [kind |-> "none", requested |-> <<>>, file_path |-> <<>>, content |-> <<>>]

\* a request arrives; the tool validates the query, and the embedding of the
\* query is requested
SearchRequest(entry, query) ==
    /\ s_pc \in {"idle", "done"}
    /\ s_entry' = entry
    /\ s_query' = query
    /\ s_embedding' = <<>>
    /\ IF QueryRejected(entry, query)
       THEN /\ s_pc' = "done"
            /\ s_calls' = NoCalls
            /\ s_response' = ErrorResponse(entry, "Query cannot be empty")
       ELSE /\ s_pc' = "embedding"
            /\ s_calls' = [NoCalls EXCEPT !.embed = 1]
            /\ s_response' = NoResponse
    /\ s_doc' = NoDocument
    /\ s_search' = NoSearch
    /\ UNCHANGED <<chunkVars, pipeVars>>

\* generate_embedding returns; an empty vector ends the request, any other
\* is passed to the store
EmbeddingReturns(ok) ==
    /\ s_pc = "embedding"
    /\ LET query_embedding == generate_embedding(s_query, ok)
       IN /\ s_embedding' = query_embedding
          /\ IF EmbeddingRejected(query_embedding)
             THEN /\ s_pc' = "done"
                  /\ s_calls' = s_calls
                  /\ s_response' = ErrorResponse(s_entry, "Failed to generate embedding for query")
             ELSE /\ s_pc' = "searching"
                  /\ s_calls' = [s_calls EXCEPT !.search = @ + 1]
                  /\ s_response' = s_response
    /\ UNCHANGED <<s_entry, s_query, s_doc, s_search>>
    /\ UNCHANGED <<chunkVars, pipeVars>>

\* vector_db.search returns and the response is built
SearchReturns(raises) ==
    /\ s_pc = "searching"
    /\ LET found == vector_db_search(store, s_embedding, raises)
       IN /\ s_search' = [called |-> TRUE, raises |-> raises, value |-> found]
          /\ s_response' = IF found.raised
                           THEN ErrorResponse(s_entry, "Error searching vector database")
                           ELSE ResultResponse(s_entry, found)
    /\ s_pc' = "done"
    /\ UNCHANGED <<s_entry, s_query, s_embedding, s_calls, s_doc>>
    /\ UNCHANGED <<chunkVars, pipeVars>>

\* file_path.split('#')[0] (mcp_server.py line 228): the logical path
\* without its chunk suffix
base_file_path(file_path) == <<file_path[1]>>

\* the get_document_content tool (mcp_server.py lines 217-257) called with
\* a logical path, once a search request has been answered. The search
\* request that may follow overwrites every variable of this section, so it
\* is followed from the answered request only.
GetDocumentContent(file_path) ==
    /\ s_pc \in {"done", "got"}
    /\ s_pc' = "got"
    /\ LET document == get_document_by_path(store, base_file_path(file_path))
       IN s_doc' = IF document # None
                   THEN [kind |-> "ok", requested |-> file_path,
                         file_path |-> base_file_path(file_path),
                         content |-> document.content]
                   ELSE [kind |-> "error", requested |-> file_path,
                         file_path |-> <<>>, content |-> <<>>]
    /\ UNCHANGED <<s_entry, s_query, s_embedding, s_calls, s_response, s_search>>
    /\ UNCHANGED <<chunkVars, pipeVars>>

\* no search request has been made
SearchIdle ==
    /\ s_pc = "idle"
    /\ s_entry = "http"
    /\ s_query = <<>>
    /\ s_embedding = <<>>
    /\ s_calls = NoCalls
    /\ s_response = NoResponse
    /\ s_doc = NoDocument
    /\ s_search = NoSearch

\* the store a clean first index run over the vault leaves
IndexedStore(vlt) ==
    add_documents(<<>>, process_file(<<>>, vlt, WalkOrder[1], {})
                        \o process_file(<<>>, vlt, WalkOrder[2], {}))

\* the vaults the search requests are made over
SearchVaults == [Paths -> {"small", "large", NoFile}]

SearchNext ==
    \/ \E entry \in Entries, query \in Queries : SearchRequest(entry, query)
    \/ \E ok \in BOOLEAN : EmbeddingReturns(ok)
    \/ \E raises \in BOOLEAN : SearchReturns(raises)
    \/ \E file_path \in DeletePaths : GetDocumentContent(file_path)

SearchInit ==
    /\ RunOff
    /\ vault \in SearchVaults
    /\ store = IndexedStore(vault)
    /\ ChunkIdle
    /\ SearchIdle

SpecSearch == SearchInit /\ [][SearchNext]_vars

(***************************************************************************)
(* The pipeline: index runs follow one another (one call of index_vault is *)
(* in flight at a time) and files are edited between runs.                 *)
(***************************************************************************)
Init == PipeInit /\ ChunkIdle /\ SearchIdle

Next ==
    \/ \E health \in BOOLEAN, model \in BOOLEAN : StartRun(health, model)
    \/ \E bad \in SUBSET ChunkIndexes : ProcessFile(bad)
    \/ WriteBatch
    \/ WriteBatchFails
    \/ EmptyBatch
    \/ ReturnSummary
    \/ \E path \in Paths, new \in FileStates : EditFile(path, new)

Spec == Init /\ [][Next]_vars

(***************************************************************************)
(* The pipeline with maintenance between the runs: every embedding and     *)
(* every store write of a run succeeds; between runs, files are touched    *)
(* and documents are deleted from the index.                               *)
(***************************************************************************)
MaintainNext ==
    \/ \E health \in BOOLEAN, model \in BOOLEAN : StartRun(health, model)
    \/ ProcessFile({})
    \/ WriteBatch
    \/ EmptyBatch
    \/ ReturnSummary
    \/ \E path \in Paths : TouchFile(path)
    \/ \E file_path \in DeletePaths, raises \in BOOLEAN : DeleteDocument(file_path, raises)

SpecMaintain == Init /\ [][MaintainNext]_vars

(***************************************************************************)
(* index_vault with its batch_size argument drawn, over vaults that may    *)
(* hold files whose name is not valid UTF-8; no file is edited.            *)
(***************************************************************************)
BatchSizes == (1..MaxBatchSize) \cup {DefaultBatchSize}

BatchInit ==
    /\ PipeStart
    /\ unencodable \in SUBSET Paths
    /\ ChunkIdle
    /\ SearchIdle

BatchNext ==
    \/ \E health \in BOOLEAN, size \in BatchSizes : IndexVault(health, TRUE, size)
    \/ \E bad \in SUBSET ChunkIndexes : ProcessFile(bad)
    \/ ProcessFileRaises
    \/ WriteBatch
    \/ WriteBatchFails
    \/ EmptyBatch
    \/ ReturnSummary

SpecBatch == BatchInit /\ [][BatchNext]_vars

(***************************************************************************)
(* Two index runs of the API process over one vault and one store, which   *)
(* may hold the records of an earlier state of the vault.                  *)
(***************************************************************************)
OverlapInit ==
    /\ RunOff
    /\ vault \in [Paths -> InitFileStates]
    /\ store \in {IndexedStore(v) : v \in SearchVaults}
    /\ ChunkIdle
    /\ SearchIdle

OverlapNext ==
    \/ \E r \in Runs, origin \in Origins : RunStarts(r, origin)
    \/ \E r \in Runs, health \in BOOLEAN : RunHealthReturns(r, health)
    \/ \E r \in Runs, ok \in BOOLEAN : RunEmbeddingReturns(r, ok)

SpecOverlap == OverlapInit /\ [][OverlapNext]_vars

(***************************************************************************)
(* The chunker on its own: every text, max_chunk_size and overlap within   *)
(* the bounds.                                                             *)
(***************************************************************************)
ChunkNext == ChunkIterate \/ ChunkReturn

ChunkInit == ChunkStart(MaxLen) /\ PipeIdle /\ SearchIdle

SpecChunk == ChunkInit /\ [][ChunkNext]_vars

\* the same with the loop scheduled until it exits, on shorter texts
ChunkInitLive == ChunkStart(LiveMaxLen) /\ PipeIdle /\ SearchIdle

SpecChunkFair == ChunkInitLive /\ [][ChunkNext]_vars /\ WF_vars(ChunkNext)

(***************************************************************************)
(* Properties of the chunker.                                              *)
(***************************************************************************)
Range(s) == {s[k] : k \in 1..Len(s)}

LongText == Len(c_text) > c_max

\* C5: for a text longer than max_chunk_size (max_chunk_size > 0, any
\* overlap), every chunk _chunk_text produces has length <= max_chunk_size.
C5_ChunkSizeBound ==
    LongText => \A k \in 1..Len(c_chunks) : Len(c_chunks[k]) <= c_max

\* a finished multi-chunk call one of whose chunks fills the whole window
C5_Witness ==
    /\ c_pc = "done" /\ LongText /\ Len(c_chunks) >= 2
    /\ \E k \in 1..Len(c_chunks) : Len(c_chunks[k]) = c_max

\* C6: for a text longer than max_chunk_size and overlap >= 0 the spans cut
\* leave no gap: the first starts at 0, each later one starts at or before
\* the end of the one before, the last reaches the end of the text, and
\* every non-whitespace character lies in a span whose trimmed slice is one
\* of the returned chunks.
C6_ChunkCoverage ==
    (LongText /\ c_overlap >= 0) =>
        /\ c_spans # <<>> => c_spans[1][1] = 0
        /\ \A k \in 1..(Len(c_spans) - 1) : c_spans[k + 1][1] <= c_spans[k][2]
        /\ c_pc = "done" =>
              /\ c_spans # <<>>
              /\ c_spans[Len(c_spans)][2] >= Len(c_text)
              /\ \A i \in 0..(Len(c_text) - 1) :
                    c_text[i + 1] \notin Whitespace =>
                        \E k \in 1..Len(c_spans) :
                            /\ c_spans[k][1] <= i /\ i < c_spans[k][2]
                            /\ strip(Slice(c_text, c_spans[k][1], c_spans[k][2]))
                                   \in Range(c_chunks)

\* a finished call with overlap > 0 that cut three or more spans, one of
\* them trimmed to nothing and dropped
C6_Witness ==
    /\ c_pc = "done" /\ LongText /\ c_overlap > 0
    /\ Len(c_spans) >= 3 /\ Len(c_chunks) < Len(c_spans)

\* C7: _chunk_text terminates for every text, every max_chunk_size > 0 and
\* every overlap: each loop iteration strictly increases start, to
\* end - overlap when that is past start and to end otherwise.
C7_ChunkTerminates ==
    /\ <>(c_pc = "done")
    /\ [][ChunkIterate =>
            /\ c_start' > c_start
            /\ \E end \in (c_start + 1)..(c_start + c_max) :
                  /\ c_spans' = Append(c_spans, <<c_start, end>>)
                  /\ c_start' = IF end - c_overlap > c_start
                                 THEN end - c_overlap ELSE end]_vars

\* a finished call in the overlap >= window case that iterated three times
C7_Witness ==
    c_pc = "done" /\ c_overlap >= c_max /\ Len(c_spans) >= 3

\* C8 (as claimed): a text with len(text) <= max_chunk_size yields exactly
\* one chunk, equal to the trimmed text.
C8_ShortTextTrimmed ==
    ShortText(c_text, c_max) =>
        c_pc = "done" /\ Len(c_chunks) = 1 /\ c_chunks[1] = strip(c_text)

\* C8 (amended): a text with len(text) <= max_chunk_size yields exactly one
\* chunk, equal to the text unchanged; it equals the trimmed text only when
\* the text has no leading or trailing whitespace.
C8_ShortTextUnchanged ==
    ShortText(c_text, c_max) =>
        /\ c_pc = "done" /\ Len(c_chunks) = 1 /\ c_chunks[1] = c_text
        /\ (c_chunks[1] = strip(c_text)) <=>
              (c_text = <<>> \/ (c_text[1] \notin Whitespace
                                 /\ c_text[Len(c_text)] \notin Whitespace))

\* a short text with leading whitespace, returned as it is
C8_Witness ==
    /\ ShortText(c_text, c_max) /\ c_pc = "done"
    /\ Len(c_text) >= 2 /\ c_text[1] \in Whitespace
    /\ c_chunks = <<c_text>>

\* C9 (as claimed): no chunk returned by _chunk_text is empty after trimming.
C9_NoEmptyChunks ==
    c_pc = "done" => \A k \in 1..Len(c_chunks) : strip(c_chunks[k]) # <<>>

(***************************************************************************)
(* Properties of the indexing pipeline.                                    *)
(***************************************************************************)
\* the stored records that derive from a file (logical path path or path#i)
RecordsOf(path) == {id \in DOMAIN store : store[id].file_path[1] = path}

\* a run has returned its summary with the provider healthy and every
\* embedding and store write of the run succeeding
CleanRunReturned == pc = "returned" /\ health_in /\ clean

\* the run before this one indexed the file in full (every chunk embedded
\* and written) and this run read the same content
IndexedUnchanged(path) ==
    /\ last[path].kind = "processed" /\ last[path].stored
    /\ outcome[path].text = last[path].text

\* C1 (as claimed): a file that one run indexed successfully and whose
\* content is unchanged is counted as skipped, not as processed, by the run
\* that follows; for the vault of a 50-character and a 2500-character file
\* that run returns processed=0, skipped=2, errors=0.
C1_Idempotence ==
    CleanRunReturned =>
        /\ \A path \in Paths :
              IndexedUnchanged(path) => outcome[path].kind = "skipped"
        /\ ( /\ IndexedUnchanged("a.md") /\ outcome["a.md"].text = "small"
             /\ IndexedUnchanged("b.md") /\ outcome["b.md"].text = "large" )
           => (result.processed = 0 /\ result.skipped = 2 /\ result.errors = 0)

\* the run before this one indexed the file in full and this run read
\* another content
IndexedChanged(path) ==
    /\ last[path].kind = "processed" /\ last[path].stored
    /\ outcome[path].text \in TextIds
    /\ outcome[path].text # last[path].text

\* C2 (as claimed): a file indexed by one run and then given another content
\* is counted as processed by the next run, after which every stored chunk of
\* the file carries the hash of the new content.
C2_ChangeDetection ==
    CleanRunReturned =>
        \A path \in Paths :
            IndexedChanged(path) =>
                /\ outcome[path].kind = "processed"
                /\ \A id \in RecordsOf(path) :
                      store[id].metadata.content_hash = get_file_hash(outcome[path].text)

\* the first index run over the vault of a 50-character file a.md and a
\* 2500-character file b.md
FirstRunOfExample ==
    /\ CleanRunReturned
    /\ last = NoOutcome /\ edits = 0
    /\ outcome["a.md"].text = "small" /\ Len(TextOf("small")) = 50
    /\ outcome["b.md"].text = "large" /\ Len(TextOf("large")) = 2500

\* C3 (as claimed): that run returns processed=2, skipped=0, errors=0,
\* total_files=2 and leaves 1 stored chunk of the small file and 3 of the
\* large one, each of length <= 1000.
C3_EndToEnd ==
    FirstRunOfExample =>
        /\ result = [processed |-> 2, errors |-> 0, skipped |-> 0, total_files |-> 2]
        /\ Cardinality(RecordsOf("a.md")) = 1
        /\ Cardinality(RecordsOf("b.md")) = 3
        /\ \A id \in DOMAIN store :
              /\ store[id].metadata.chunk_size <= 1000
              /\ Len(ContentText(store[id].content)) <= 1000

\* C4: a failed health check makes index_vault raise before discovery with
\* no file read, no embedding requested and the store neither read nor
\* written; a passed health check with the model missing does not abort the
\* run, which goes on to discovery.
C4_Preflight ==
    /\ []((pc # "idle" /\ ~health_in) => (pc = "raised" /\ io = NoIO))
    /\ []((pc # "idle" /\ health_in) => pc \in {"files", "returned"})
    /\ [][(Callable /\ vault' = vault /\ ~health_in') =>
             /\ pc' = "raised"
             /\ store' = store
             /\ markdown_files' = <<>>
             /\ io' = NoIO]_vars
    /\ [][(Callable /\ vault' = vault /\ health_in' /\ ~model_in') =>
             /\ pc' \in {"files", "returned"}
             /\ markdown_files' = get_all_markdown_files(vault)]_vars

\* a run raised at the preflight over a store that an earlier run filled
C4_Witness ==
    /\ pc = "raised" /\ ~health_in
    /\ DOMAIN store # {}
    /\ \E path \in Paths : vault[path] \in TextIds /\ RecordsOf(path) = {}

\* the files this run discovered and could not read
UnreadableSeen == {path \in Paths : outcome[path].text = Undecodable}

\* C10 (as claimed): a discovered file that cannot be read is counted in the
\* run's errors, not in skipped and not in processed.
C10_UnreadableIsError ==
    (pc = "returned" /\ UnreadableSeen # {}) =>
        /\ \A path \in UnreadableSeen : outcome[path].kind = "error"
        /\ result.errors >= Cardinality(UnreadableSeen)
        /\ result.processed + result.skipped
              <= result.total_files - Cardinality(UnreadableSeen)

\* the file the inner loop is about to process
CurrentFile == markdown_files[file_k + 1]

\* this step is _process_file on a file that was read and chunked, with every
\* embedding request of its chunks answered by an empty vector
ZeroEmbeddingStep ==
    /\ pc = "files" /\ file_k' = file_k + 1
    /\ EmbedCalls(store, vault, CurrentFile) > 0
    /\ io'.embeds = io.embeds + EmbedCalls(store, vault, CurrentFile)
    /\ batch_documents' = batch_documents

\* C11 (as claimed): a new or changed file that is read and chunked but whose
\* every chunk gets an empty embedding is counted as processed by the run,
\* not as skipped.
C11_ZeroEmbeddingProcessed ==
    [][ZeroEmbeddingStep => (processed' = processed + 1 /\ skipped' = skipped)]_vars

\* this step is a delete request for the file's path that the store answered
DeleteAnswered(path) ==
    /\ deleted'.n = deleted.n + 1
    /\ deleted'.file_path = <<path>>
    /\ ~deleted'.raised

\* C12 (as claimed): delete_document on the path of a file that has been
\* indexed returns true, after which get_document_by_path of that path
\* returns absent; on a path that was never indexed it returns false and
\* leaves the store unchanged.
C12_Deletion ==
    [][\A path \in Paths :
          DeleteAnswered(path) =>
              IF RecordsOf(path) # {}
              THEN /\ deleted'.returned
                   /\ get_document_by_path(store', <<path>>) = None
              ELSE /\ ~deleted'.returned
                   /\ store' = store]_vars

\* C13 (as claimed): in every reachable store state, all stored chunks that
\* derive from the same source file carry the same content_hash.
C13_ContentHashInvariant ==
    \A path \in Paths :
        \A id1 \in RecordsOf(path), id2 \in RecordsOf(path) :
            store[id1].metadata.content_hash = store[id2].metadata.content_hash

\* the logical paths of the stored records
StoredLogicalPaths == {store[id].file_path : id \in DOMAIN store}

\* this step is the successful store write of a batch holding every chunk
\* of the file, which the run before indexed in full with another content
\* of at least as many chunks
ReindexWrite(path) ==
    /\ pc = "files" /\ io'.store_writes = io.store_writes + 1
    /\ store' = add_documents(store, batch_documents)
    /\ path \in BatchPaths
    /\ IndexedChanged(path)
    /\ outcome'[path].stored
    /\ Len(ChunksOf[outcome[path].text]) <= Len(ChunksOf[last[path].text])

\* C14 (as claimed): the store id is a function of the logical path alone,
\* the store holds at most one record per logical path, and re-indexing a
\* changed file overwrites its records: the number of the file's records
\* does not grow when the file's chunk count does not grow.
C14_UpsertDeterminism ==
    /\ [](\A id \in DOMAIN store : id = generate_document_id(store[id].file_path))
    /\ [](Cardinality(StoredLogicalPaths) = Cardinality(DOMAIN store))
    /\ [][\A path \in Paths :
             ReindexWrite(path) =>
                 Cardinality({id \in DOMAIN store' : store'[id].file_path[1] = path})
                     <= Cardinality(RecordsOf(path))]_vars

\* C17 (as claimed): every index_vault run that passes the preflight,
\* the run over a vault without markdown files included, returns a result
\* carrying processed, errors, skipped and total_files, from which the
\* reindex handler builds its IndexStats response.
C17_SummaryShape ==
    pc = "returned" =>
        /\ DOMAIN result = IndexStatsFields
        /\ manual_reindex(result) = 200

\* the inner loop is at a file for which _process_file raises
AtRaisingFile ==
    /\ pc = "files"
    /\ batch_i < Len(markdown_files)
    /\ file_k < BatchEnd
    /\ ProcessRaises(vault, unencodable, CurrentFile)

\* the discovered files for which _process_file raised in this run
RaisedFiles == {path \in Paths : outcome[path].kind = "error"}

\* C18: an exception raised while one file is processed is caught inside
\* index_vault and adds exactly one to errors; the run is not aborted: the
\* loop goes on to the next file, every file of the same batch and of the
\* later batches is still handled, and the run returns its summary.
C18_PerFileIsolation ==
    /\ [][AtRaisingFile =>
             /\ errors' = errors + 1
             /\ processed' = processed /\ skipped' = skipped
             /\ pc' = "files" /\ file_k' = file_k + 1
             /\ batch_documents' = batch_documents /\ store' = store]_vars
    /\ [][pc = "files" => pc' \in {"files", "returned"}]_vars
    /\ []((pc = "returned" /\ markdown_files # <<>>) =>
             /\ \A k \in 1..Len(markdown_files) :
                   outcome[markdown_files[k]].kind \in {"processed", "skipped", "error"}
             /\ DOMAIN result = IndexStatsFields
             /\ result.errors >= Cardinality(RaisedFiles)
             /\ result.processed + result.skipped + Cardinality(RaisedFiles)
                   = result.total_files)

\* a run with one file per batch has returned: _process_file raised for
\* the first file, and the second file, in the batch after it, was
\* processed and stored
C18_Witness ==
    /\ pc = "returned" /\ batch_size = 1
    /\ outcome["a.md"].kind = "error"
    /\ outcome["b.md"].kind = "processed" /\ outcome["b.md"].stored
    /\ RecordsOf("b.md") # {}
    /\ result.errors = 1 /\ result.processed = 1 /\ result.total_files = 2

\* this step is the store write of a batch, and it raises
WriteRaises ==
    /\ pc = "files" /\ batch_documents # <<>>
    /\ io'.store_writes = io.store_writes + 1
    /\ faults' = faults + 1

\* the ids of the documents of the batch
BatchIds == {generate_document_id(batch_documents[n].file_path) :
                n \in 1..Len(batch_documents)}

\* the file's chunks are stored as this run embedded them
StoredAsRead(path) ==
    LET n == Len(ChunksOf[outcome[path].text])
    IN \A i \in 0..(n - 1) :
          LET doc == get_document_by_path(store, LogicalPath(path, i, n))
          IN /\ doc # None
             /\ doc.content = <<outcome[path].text, i>>

\* C19: when the store write of a batch fails, index_vault adds the number
\* of chunks of that batch to errors, does not attempt the write of that
\* batch again within the run and goes on with the next batch; the writes
\* of the following batches are unaffected and what earlier batches wrote
\* stays stored.
C19_BatchWriteFailure ==
    /\ [][WriteRaises =>
             /\ errors' = errors + Len(batch_documents)
             /\ processed' = processed /\ skipped' = skipped
             /\ store' = store
             /\ pc' = "files"
             /\ batch_i' = batch_i + batch_size /\ batch_documents' = <<>>]_vars
    /\ [](pc \in {"files", "returned"} => io.store_writes * batch_size <= batch_i)
    /\ [][(pc = "files" /\ pc' \in {"files", "returned"}) =>
             \A id \in DOMAIN store :
                 /\ id \in DOMAIN store'
                 /\ (id \notin BatchIds => store'[id] = store[id])]_vars
    /\ [](pc = "returned" =>
             \A path \in Paths :
                 (outcome[path].kind = "processed" /\ outcome[path].stored)
                     => StoredAsRead(path))

\* a run with one file per batch has returned: the write of the first
\* batch, the four chunks of a 2500-character file, failed and added 4 to
\* errors; the write of the second batch was made and its file is stored
C19_Witness ==
    /\ pc = "returned" /\ batch_size = 1 /\ faults = 1
    /\ outcome["a.md"].kind = "processed" /\ outcome["a.md"].text = "large"
    /\ ~outcome["a.md"].stored /\ RecordsOf("a.md") = {}
    /\ outcome["b.md"].kind = "processed" /\ outcome["b.md"].stored
    /\ StoredAsRead("b.md")
    /\ result.errors = 4 /\ io.store_writes = 2

\* the file is indexed with its present content, and its modification time
\* has changed since: every chunk of the content is stored, and the stored
\* records of the file carry the hash of the content and another modified_at
TouchedOnly(path) ==
    /\ vault[path] \in TextIds
    /\ RecordsOf(path) # {}
    /\ Cardinality(RecordsOf(path)) = Len(ChunksOf[vault[path]])
    /\ \A id \in RecordsOf(path) :
          /\ store[id].metadata.content_hash = get_file_hash(vault[path])
          /\ store[id].metadata.modified_at # mtime[path]

\* C20 (as claimed): a file indexed before whose modification time changed
\* and whose content hash did not is skipped by the next run: no embedding
\* is requested for it, no store write is made for it, and its stored
\* records, modified_at included, stay as they were.
C20_HashOnlyChangeDetection ==
    /\ [][(pc = "files" /\ batch_i < Len(markdown_files) /\ file_k < BatchEnd
             /\ TouchedOnly(CurrentFile)) =>
               /\ skipped' = skipped + 1 /\ processed' = processed
               /\ io'.embeds = io.embeds
               /\ batch_documents' = batch_documents]_vars
    /\ [][\A path \in Paths :
             (pc = "files" /\ TouchedOnly(path)) =>
                 /\ CurrentFile # path => batch_documents' = batch_documents
                 /\ \A id \in RecordsOf(path) :
                       id \in DOMAIN store' /\ store'[id] = store[id]]_vars

(***************************************************************************)
(* Properties of the search entry points.                                  *)
(***************************************************************************)
\* the embedding of the query of this request came back empty
QueryEmbeddingFailed ==
    /\ s_pc \in {"searching", "done"}
    /\ s_calls.embed > 0
    /\ s_embedding = <<>>

\* C15: on POST /search and in the search_obsidian tool, when the embedding
\* of the query comes back empty the request ends in an error response, the
\* store's search is not called and no successful response is returned.
C15_QueryEmbeddingFailure ==
    QueryEmbeddingFailed =>
        /\ s_pc = "done"
        /\ s_response.kind = "error"
        /\ s_calls.search = 0

\* the embedding of a query failed on POST /search over a store holding
\* records that a search would have returned
C15_Witness ==
    /\ QueryEmbeddingFailed /\ s_pc = "done"
    /\ s_entry = "http" /\ strip(s_query) # <<>>
    /\ s_response.kind = "error"
    /\ DOMAIN store # {}

\* C16 (as claimed): on POST /search and in the search_obsidian tool, a
\* query that is empty or holds only whitespace is rejected before any call
\* to the embedding provider or to the vector store.
C16_EmptyQueryRejected ==
    (s_pc # "idle" /\ strip(s_query) = <<>>) =>
        /\ s_pc = "done"
        /\ s_response.kind = "error"
        /\ s_calls = NoCalls

\* the stored records the search_obsidian tool returned whose file_path the
\* get_document_content tool was then called with
RequestedResults ==
    {id \in s_response.results : store[id].file_path = s_doc.requested}

\* C21 (as claimed): get_document_content called with the file_path of a
\* result of the search_obsidian tool, the record still being stored,
\* returns the content of that document and not a 'Document not found'
\* error, also when the result is one chunk of a file split into several.
C21_RetrievalRoundTrip ==
    (s_pc = "got" /\ s_entry = "mcp" /\ s_response.kind = "ok") =>
        \A id \in RequestedResults :
            /\ s_doc.kind = "ok"
            /\ s_doc.content = store[id].content

\* C22: when the nearest-neighbour query of the collection fails,
\* VectorDatabase.search does not raise: it returns the empty result list
\* with total_results 0, the value it returns when nothing matches.
C22_SearchFailureIsEmpty ==
    (s_search.called /\ s_search.raises) =>
        /\ ~s_search.value.raised
        /\ s_search.value.results = {}
        /\ s_search.value.total_results = 0
        /\ s_search.value = vector_db_search(<<>>, s_embedding, FALSE)

\* the query of a collection that holds records has failed
C22_Witness ==
    /\ s_search.called
    /\ s_search.raises
    /\ DOMAIN store # {}
    /\ s_pc = "done"

\* a step of a run that issues a write to the store, successful or not
StoreWriteStep == io'.store_writes = io.store_writes + 1

\* a step of a run that closes the current batch
BatchCloses == pc = "files" /\ batch_i' # batch_i

\* C23: the write of a batch is issued only once every file of the batch
\* has been processed, and closes the batch, so a batch has at most one
\* write; a batch that produced no chunk has none; a batch holds at most
\* batch_size files, ten with the default.
C23_BatchedWrites ==
    /\ [][/\ StoreWriteStep =>
                /\ pc = "files"
                /\ file_k = Min(batch_i + batch_size, Len(markdown_files))
                /\ batch_documents # <<>>
                /\ batch_i' = batch_i + batch_size
          /\ store' # store => StoreWriteStep
          /\ (BatchCloses /\ batch_documents = <<>>) =>
                /\ io'.store_writes = io.store_writes
                /\ store' = store]_vars
    /\ [](pc = "files" =>
            /\ io.store_writes * batch_size <= batch_i
            /\ file_k - batch_i <= batch_size
            /\ batch_size = DefaultBatchSize => file_k - batch_i <= 10
            /\ BatchPaths \subseteq
                  {markdown_files[n] : n \in (batch_i + 1)..file_k})

\* a run with the default batch size has written its two files in one
\* write
C23_Witness ==
    /\ pc = "returned"
    /\ batch_size = DefaultBatchSize
    /\ io.store_writes = 1
    /\ \A path \in Paths : RecordsOf(path) # {}

\* the chunk indexes of the documents of a file in a sequence of documents
ChunksIn(documents, path) ==
    {documents[n].metadata.chunk_index :
        n \in {m \in 1..Len(documents) : documents[m].file_path[1] = path}}

\* the chunk indexes of a file of the batch being built whose embedding
\* was not empty
Embedded(path) == (0..(Len(ChunksOf[outcome[path].text]) - 1)) \ outcome[path].failed

\* C24: every stored record has a non-empty embedding. A chunk whose
\* embedding came back empty is dropped and never passed to the write of
\* the store; the other chunks of the same file are passed to it, and are
\* stored when the write succeeds.
C24_NonEmptyEmbeddings ==
    /\ [](\A id \in DOMAIN store : store[id].embedding # <<>>)
    /\ [](\A n \in 1..Len(batch_documents) : batch_documents[n].embedding # <<>>)
    /\ [](pc = "files" =>
            \A path \in BatchPaths :
                ChunksIn(batch_documents, path) = Embedded(path))
    /\ [][(StoreWriteStep /\ faults' = faults) =>
            \A path \in BatchPaths :
                \A i \in Embedded(path) :
                    \E id \in DOMAIN store' :
                        /\ store'[id].file_path[1] = path
                        /\ store'[id].content = <<outcome[path].text, i>>
                        /\ store'[id].embedding # <<>>]_vars

\* one embedding of the four chunks of a file came back empty, and the
\* other three chunks are stored
C24_Witness ==
    \E path \in Paths :
        /\ pc = "returned"
        /\ faults = 1
        /\ outcome[path].kind = "processed" /\ ~outcome[path].stored
        /\ outcome[path].text = "large"
        /\ Cardinality(RecordsOf(path)) = 3

\* the indexes from lo on at which a double newline lies within the window
\* text[start, start + max_chunk_size) of the call being stepped
WindowNewlines(start, lo) ==
    {i \in lo..(start + c_max - 2) : c_text[i + 1] = "\n" /\ c_text[i + 2] = "\n"}

\* the indexes from lo on at which a period lies within the window
WindowPeriods(start, lo) ==
    {i \in lo..(start + c_max - 1) : c_text[i + 1] = "."}

Highest(S) == CHOOSE i \in S : \A j \in S : j <= i

\* the cut of the chunk <<start, end>> follows the breakpoint rule, the
\* boundaries being looked for at the indexes start + from and above
BreakpointRule(span, from) ==
    LET start == span[1]
        end == span[2]
        newlines == WindowNewlines(start, start + from)
        periods == WindowPeriods(start, start + from)
    IN (start + c_max < Len(c_text)) =>
          IF newlines # {} THEN end = Highest(newlines)
          ELSE IF periods # {} THEN end = Highest(periods) + 1
          ELSE end = start + c_max

\* C25 (as claimed): for every chunk whose tentative end falls strictly
\* inside the text, a window that contains a double newline is cut at the
\* last one, else a window that contains a period is cut just after the
\* last one, and the raw boundary is used only when the window has neither.
C25_NaturalBreakpoints ==
    \A n \in 1..Len(c_spans) : BreakpointRule(c_spans[n], 0)

\* C25 (amended): the same, for the double newlines and periods that lie
\* at an index greater than start; one at the first index of the window is
\* not a breakpoint.
C25_BreakpointsAfterStart ==
    \A n \in 1..Len(c_spans) : BreakpointRule(c_spans[n], 1)

\* a chunk was cut at a double newline although a period follows it in
\* the window
C25_Witness ==
    /\ c_pc = "done"
    /\ \E n \in 1..Len(c_spans) :
          LET start == c_spans[n][1]
              newlines == WindowNewlines(start, start + 1)
              periods == WindowPeriods(start, start + 1)
          IN /\ start + c_max < Len(c_text)
             /\ newlines # {} /\ periods # {}
             /\ Highest(periods) > Highest(newlines)
             /\ c_spans[n][2] = Highest(newlines)

\* the hash the store holds for the file under its plain path is the hash
\* of the content the vault holds for it
StoredCurrent(path) ==
    LET existing_doc == get_document_by_path(store, <<path>>)
    IN /\ existing_doc # None
       /\ existing_doc.metadata.content_hash = get_file_hash(vault[path])

FileStep == pc = "files" /\ file_k' = file_k + 1

\* C27: in a run over a non-empty vault every discovered file adds one to
\* exactly one of processed, skipped and errors, so the three add up to
\* total_files when no batch write of the run failed, and exceed it by
\* exactly the chunk counts of the batch writes that failed.
C27_CountPartition ==
    /\ [][FileStep =>
            \/ (processed' = processed + 1 /\ skipped' = skipped /\ errors' = errors)
            \/ (processed' = processed /\ skipped' = skipped + 1 /\ errors' = errors)
            \/ (processed' = processed /\ skipped' = skipped /\ errors' = errors + 1)]_vars
    /\ [](pc = "files" =>
            processed + skipped + errors = file_k + io.failed_chunks)
    /\ []((pc = "returned" /\ markdown_files # <<>>) =>
            /\ result.processed + result.skipped + result.errors
                  = result.total_files + io.failed_chunks
            /\ clean => result.processed + result.skipped + result.errors
                           = result.total_files)

\* a run over two files has returned: one file was processed, for the
\* other _process_file raised, and the write of the four chunks failed
C27_Witness ==
    /\ pc = "returned"
    /\ Len(markdown_files) = 2
    /\ result.total_files = 2
    /\ result.processed = 1 /\ result.skipped = 0 /\ result.errors = 5
    /\ io.failed_chunks = 4

\* the run before this one read and chunked the file but did not persist
\* its chunks: the write of its batch did not store them, or every
\* embedding request of the file failed
NotPersisted(path) ==
    \/ last[path].kind = "processed" /\ ~last[path].stored
    \/ last[path].kind = "skipped" /\ last[path].failed # {}

\* this step handles a file the run before did not persist, its content
\* being the content that run read
RetryStep ==
    /\ FileStep
    /\ NotPersisted(CurrentFile)
    /\ vault[CurrentFile] = last[CurrentFile].text

C29_DeleteRemovesWholeFile ==
    [][\A path \in Paths :
          (DeleteAnswered(path) /\ RecordsOf(path) # {} /\ deleted'.returned) =>
              \A id \in DOMAIN store' : store'[id].file_path[1] # path]_vars

====
